---- MODULE Spec2Model ----
(***************************************************************************)
(* The review scheduling of the Koda flashcard application.                *)
(*                                                                         *)
(* Three implementations of the spaced-repetition transition exist in the  *)
(* repository and each is modelled from its own source:                    *)
(*   - the server handler of POST /api/study/review   (src/api/index.ts),  *)
(*   - the offline fallback of ApiService.submitReview                     *)
(*                                       (src/client/src/services/api.ts), *)
(*   - the session-local calculateSM2                                      *)
(*                             (src/client/src/pages/StudySessionPage.tsx).*)
(*                                                                         *)
(* Around them the module models the client's ApiService.submitReview with *)
(* its retries, the study session page (studyQueue, currentCardIndex and   *)
(* the asynchronous handleCardReview) and the due-card query of the server *)
(* and of the client's fallback.  Each part has its own specification over *)
(* the one set of variables; the variables of the other parts stay at rest.*)
(* The review handler of the server is also followed statement by          *)
(* statement (SpecServer), where the invocations of two requests           *)
(* interleave, and the session is followed to handleSessionComplete.       *)
(*                                                                         *)
(* Number representation.  The code computes with JavaScript numbers; the  *)
(* model computes with exact decimals held as integers:                    *)
(*   - interval and easeFactor are held in hundredths (2.5 is 250, a       *)
(*     quarter of a day is 25),                                            *)
(*   - quality is held in tenths (4 is 40, 3.5 is 35) because the server   *)
(*     schema accepts any number in [0, 5], not only integers,             *)
(*   - time is held in ticks of a quarter of a day (6 hours).              *)
(* Math.round is "round half up" and is modelled as such.                  *)
(***************************************************************************)
EXTENDS Integers, Sequences, FiniteSets, TLC

VARIABLES
    now,        \* the clock (new Date()), in ticks of 6 hours
    card,       \* the row of the card in the server database (prisma.card)
    demoCard,   \* the same card in the client's localStorage (koda_demo_cards)
    isDemoMode, \* the client's module-level demo-mode flag
    entry,      \* the card's entry in the session's studyQueue
    last,       \* history: the operation applied last and the state it found
    heap,             \* the entry objects of the study session, by card id
    studyQueue,       \* the session's queue: a sequence of card ids
    currentCardIndex, \* the session's pointer, counted from 0 as in the code
    sessionStats,     \* the session's counters
    isOfflineMode,    \* the session's offline flag
    calls,      \* the handleCardReview invocations awaiting submitReview
    unsynced,   \* history: the ids whose latest review was not persisted
    completion, \* what handleSessionComplete sent and the accuracy answered
    request,    \* the ApiService.submitReview call under way
    cards,      \* the rows of the card table, by card id
    dueResult,  \* the answer of the last due-card query
    reviewHistory, \* the number of rows of the review-history table
    handlers    \* the review handler's invocations followed step by step

sessionVars ==
    <<heap, studyQueue, currentCardIndex, sessionStats, isOfflineMode,
      calls, unsynced, completion>>
dueVars == <<cards, dueResult>>
serverVars == <<reviewHistory, handlers>>
vars ==
    <<now, card, demoCard, isDemoMode, entry, last, sessionVars, request,
      dueVars, serverVars>>

-----------------------------------------------------------------------------
(* Units *)

Days(n) == 100 * n            \* n whole days as an interval in hundredths
Q(n) == 10 * n                \* the integer rating n as a quality in tenths
TicksOfDays(n) == 4 * n       \* n whole days in clock ticks

Max(a, b) == IF a >= b THEN a ELSE b
Min(a, b) == IF a <= b THEN a ELSE b

\* Math.round(interval * factor), both in hundredths; the result in whole days.
RoundMul(interval, factor) == (interval * factor + 5000) \div 10000

-----------------------------------------------------------------------------
(* Bounds of the model *)

MaxReviews == 7     \* reviews applied to one stored card since its last reset
MaxNow == 1         \* the clock stops advancing here

-----------------------------------------------------------------------------
(* Program constants *)

EaseMax == 280          \* Math.min(2.8, ...)
EaseMin == 130          \* Math.max(1.3, ...)
FreshEase == 250        \* easeFactor: 2.5
FreshInterval == 100    \* interval: 1.0
HalfDay == 50           \* newInterval = 0.5
QuarterDay == 25        \* newInterval = 0.25
LearningGrowth == 130   \* card.interval * 1.3
MasteredFloor == 7      \* Math.max(7, ...)

Stages == {"new", "learning", "review", "mastered"}

StageRank(s) ==
    CASE s = "new" -> 0
      [] s = "learning" -> 1
      [] s = "review" -> 2
      [] s = "mastered" -> 3

\* reviewSchema: quality is z.number().min(0).max(5); 3.5 stands for the
\* non-integer numbers the schema lets through.
Qualities == {Q(0), Q(1), Q(2), Q(3), 35, Q(4), Q(5)}

-----------------------------------------------------------------------------
(* The card row *)

\* The memory state of a card whose progress was just (re)set at time t.
FreshCard(t) ==
    [stage |-> "new", interval |-> FreshInterval, easeFactor |-> FreshEase,
     consecutiveCorrect |-> 0, reviewCount |-> 0, nextReviewAt |-> t]

\* date.setDate(date.getDate() + interval): MakeDay applies ToIntegerOrInfinity
\* to the day number, so the fraction of a day in the interval is dropped.
SetDatePlus(t, interval) == t + TicksOfDays(interval \div 100)

-----------------------------------------------------------------------------
(* POST /api/study/review: the server handler *)

\* card.stage === 'new'
ServerNewSuccess(quality) ==
    [stage |-> "learning",
     interval |-> IF quality >= Q(4) THEN Days(2) ELSE Days(1)]

\* A plausible slip: graduation from learning after one correct answer.
ServerLearningSuccess_EarlyGraduation(c, quality, cc) ==
    IF cc >= 1 /\ quality >= Q(3)
    THEN [stage |-> "review",
          interval |-> IF quality >= Q(4) THEN Days(5) ELSE Days(4)]
    ELSE [stage |-> "learning",
          interval |-> Days(Max(1, RoundMul(c.interval, LearningGrowth)))]

\* card.stage === 'learning'
ServerLearningSuccess(c, quality, cc) ==
    IF cc >= 2 /\ quality >= Q(3)
    THEN [stage |-> "review",
          interval |-> IF quality >= Q(4) THEN Days(5) ELSE Days(4)]
    ELSE [stage |-> "learning",
          interval |-> Days(Max(1, RoundMul(c.interval, LearningGrowth)))]

\* card.stage === 'review'; newEaseFactor is still the card's ease factor here
ServerReviewSuccess(c, quality, cc) ==
    [stage |-> IF cc >= 3 /\ quality >= Q(4) THEN "mastered"
               ELSE IF cc >= 4 /\ quality >= Q(3) THEN "mastered"
               ELSE "review",
     interval |-> Days(Max(1, RoundMul(c.interval, c.easeFactor)))]

\* A plausible slip: Math.min in place of Math.max.
ServerMasteredSuccess_MinForMax(c) ==
    [stage |-> "mastered",
     interval |-> Days(Min(MasteredFloor, RoundMul(c.interval, c.easeFactor)))]

\* card.stage === 'mastered'
ServerMasteredSuccess(c) ==
    [stage |-> "mastered",
     interval |-> Days(Max(MasteredFloor, RoundMul(c.interval, c.easeFactor)))]

ServerSuccessStageInterval(c, quality, cc) ==
    CASE c.stage = "new" -> ServerNewSuccess(quality)
      [] c.stage = "learning" -> ServerLearningSuccess(c, quality, cc)
      [] c.stage = "review" -> ServerReviewSuccess(c, quality, cc)
      [] c.stage = "mastered" -> ServerMasteredSuccess(c)

\* A plausible slip: the ease factor is not clamped after the adjustment.
ServerSuccessEase_NoClamp(ease, quality) ==
    IF quality >= Q(4) THEN ease + 10
    ELSE IF quality = Q(3) THEN ease + 5
    ELSE ease - 10

ServerSuccessEase(ease, quality) ==
    IF quality >= Q(4) THEN Min(EaseMax, ease + 10)
    ELSE IF quality = Q(3) THEN Min(EaseMax, ease + 5)
    ELSE Max(EaseMin, ease - 10)

\* A plausible slip: the lower clamp is missing.
ServerFailureEase_NoFloor(ease) == ease - 20

ServerFailureEase(ease) == Max(EaseMin, ease - 20)

\* A plausible slip: a failed mastered card is demoted by one stage only.
ServerFailureStageInterval_OneStepDown(c) ==
    IF c.stage = "mastered"
    THEN [stage |-> "review", interval |-> Days(1)]
    ELSE IF c.stage = "review"
    THEN [stage |-> "learning", interval |-> Days(1)]
    ELSE IF c.stage = "learning"
    THEN [stage |-> "new", interval |-> HalfDay]
    ELSE [stage |-> c.stage, interval |-> QuarterDay]

ServerFailureStageInterval(c) ==
    IF c.stage = "mastered" \/ c.stage = "review"
    THEN [stage |-> "learning", interval |-> Days(1)]
    ELSE IF c.stage = "learning"
    THEN [stage |-> "new", interval |-> HalfDay]
    ELSE [stage |-> c.stage, interval |-> QuarterDay]

\* A plausible slip: the branch is chosen from the quality, not from wasCorrect.
ServerApply_BranchOnQuality(c, quality, wasCorrect) ==
    IF quality >= Q(3)
    THEN LET cc == c.consecutiveCorrect + 1
             si == ServerSuccessStageInterval(c, quality, cc)
         IN  [stage |-> si.stage, interval |-> si.interval,
              easeFactor |-> ServerSuccessEase(c.easeFactor, quality),
              consecutiveCorrect |-> cc]
    ELSE LET si == ServerFailureStageInterval(c)
         IN  [stage |-> si.stage, interval |-> si.interval,
              easeFactor |-> ServerFailureEase(c.easeFactor),
              consecutiveCorrect |-> 0]

\* A plausible slip: the ease factor is adjusted before the interval is computed.
ServerApply_EaseFirst(c, quality, wasCorrect) ==
    IF wasCorrect
    THEN LET cc == c.consecutiveCorrect + 1
             ease == ServerSuccessEase(c.easeFactor, quality)
             si == ServerSuccessStageInterval(
                       [c EXCEPT !.easeFactor = ease], quality, cc)
         IN  [stage |-> si.stage, interval |-> si.interval,
              easeFactor |-> ease, consecutiveCorrect |-> cc]
    ELSE LET si == ServerFailureStageInterval(c)
         IN  [stage |-> si.stage, interval |-> si.interval,
              easeFactor |-> ServerFailureEase(c.easeFactor),
              consecutiveCorrect |-> 0]

\* newStage, newInterval, newEaseFactor, newConsecutiveCorrect
ServerApply(c, quality, wasCorrect) ==
    IF wasCorrect
    THEN LET cc == c.consecutiveCorrect + 1
             si == ServerSuccessStageInterval(c, quality, cc)
         IN  [stage |-> si.stage, interval |-> si.interval,
              easeFactor |-> ServerSuccessEase(c.easeFactor, quality),
              consecutiveCorrect |-> cc]
    ELSE LET si == ServerFailureStageInterval(c)
         IN  [stage |-> si.stage, interval |-> si.interval,
              easeFactor |-> ServerFailureEase(c.easeFactor),
              consecutiveCorrect |-> 0]

\* A plausible slip: the review counter is written back as it was read.
ServerUpdate_NoIncrement(c, quality, wasCorrect, t) ==
    LET n == ServerApply(c, quality, wasCorrect)
    IN  [stage |-> n.stage, interval |-> n.interval, easeFactor |-> n.easeFactor,
         consecutiveCorrect |-> n.consecutiveCorrect,
         reviewCount |-> c.reviewCount,
         nextReviewAt |-> SetDatePlus(t, n.interval)]

\* prisma.card.update({ data: { ..., reviewCount: { increment: 1 } } })
ServerUpdate(c, quality, wasCorrect, t) ==
    LET n == ServerApply(c, quality, wasCorrect)
    IN  [stage |-> n.stage, interval |-> n.interval, easeFactor |-> n.easeFactor,
         consecutiveCorrect |-> n.consecutiveCorrect,
         reviewCount |-> c.reviewCount + 1,
         nextReviewAt |-> SetDatePlus(t, n.interval)]

Record(op, site, before, quality, wasCorrect) ==
    [op |-> op, site |-> site, before |-> before, quality |-> quality,
     wasCorrect |-> wasCorrect, at |-> now]

ServerReview(quality, wasCorrect) ==
    /\ card' = ServerUpdate(card, quality, wasCorrect, now)
    /\ last' = Record("review", "server", card, quality, wasCorrect)
    /\ reviewHistory' = reviewHistory + 1
    /\ UNCHANGED <<now, demoCard, isDemoMode, entry, sessionVars, request,
                   dueVars, handlers>>

\* POST /api/decks/[id]/reset-progress
ResetProgress ==
    /\ card' = FreshCard(now)
    /\ last' = Record("reset", "server", card, 0, FALSE)
    /\ UNCHANGED <<now, demoCard, isDemoMode, entry, sessionVars, request,
                   dueVars>>
    /\ UNCHANGED serverVars

\* PUT /api/cards/[id]: updateCardSchema carries front, back, hint, type and
\* tags only, so the memory state of the row is written back as it was.
UpdateCard ==
    /\ card' = card
    /\ last' = Record("edit", "server", card, 0, FALSE)
    /\ UNCHANGED <<now, demoCard, isDemoMode, entry, sessionVars, request,
                   dueVars>>
    /\ UNCHANGED serverVars

Tick ==
    /\ now < MaxNow
    /\ now' = now + 1
    /\ UNCHANGED <<card, demoCard, isDemoMode, entry, last, sessionVars,
                   request, dueVars>>
    /\ UNCHANGED serverVars

-----------------------------------------------------------------------------
(* ApiService.submitReview: the offline fallback on localStorage *)

OfflineSuccessStageInterval(c, quality, cc) ==
    CASE c.stage = "new" ->
           [stage |-> "learning",
            interval |-> IF quality >= Q(4) THEN Days(2) ELSE Days(1)]
      [] c.stage = "learning" ->
           IF cc >= 2 /\ quality >= Q(3)
           THEN [stage |-> "review",
                 interval |-> IF quality >= Q(4) THEN Days(5) ELSE Days(4)]
           ELSE [stage |-> "learning",
                 interval |-> Days(Max(1, RoundMul(c.interval, LearningGrowth)))]
      [] c.stage = "review" ->
           [stage |-> IF cc >= 3 /\ quality >= Q(4) THEN "mastered" ELSE "review",
            interval |-> Days(Max(1, RoundMul(c.interval, c.easeFactor)))]
      [] c.stage = "mastered" ->
           [stage |-> "mastered",
            interval |-> Days(Max(MasteredFloor, RoundMul(c.interval, c.easeFactor)))]

OfflineSuccessEase(ease, quality) ==
    IF quality >= Q(4) THEN Min(EaseMax, ease + 10)
    ELSE IF quality = Q(3) THEN Min(EaseMax, ease + 5)
    ELSE ease

OfflineFailureEase(ease) == Max(EaseMin, ease - 20)

OfflineFailureStageInterval(c) ==
    IF c.stage = "mastered" \/ c.stage = "review"
    THEN [stage |-> "learning", interval |-> Days(1)]
    ELSE IF c.stage = "learning"
    THEN [stage |-> "new", interval |-> HalfDay]
    ELSE [stage |-> c.stage, interval |-> QuarterDay]

OfflineApply(c, quality, wasCorrect) ==
    IF wasCorrect
    THEN LET cc == c.consecutiveCorrect + 1
             si == OfflineSuccessStageInterval(c, quality, cc)
         IN  [stage |-> si.stage, interval |-> si.interval,
              easeFactor |-> OfflineSuccessEase(c.easeFactor, quality),
              consecutiveCorrect |-> cc]
    ELSE LET si == OfflineFailureStageInterval(c)
         IN  [stage |-> si.stage, interval |-> si.interval,
              easeFactor |-> OfflineFailureEase(c.easeFactor),
              consecutiveCorrect |-> 0]

\* updatedCard = { ...card, ..., reviewCount: card.reviewCount + 1, ... }
OfflineUpdate(c, quality, wasCorrect, t) ==
    LET n == OfflineApply(c, quality, wasCorrect)
    IN  [stage |-> n.stage, interval |-> n.interval, easeFactor |-> n.easeFactor,
         consecutiveCorrect |-> n.consecutiveCorrect,
         reviewCount |-> c.reviewCount + 1,
         nextReviewAt |-> SetDatePlus(t, n.interval)]

\* The request found the API unreachable (error.isDemoMode or status 0) and
\* the card is in localStorage: the review is applied there.
OfflineReview(quality, wasCorrect) ==
    /\ isDemoMode' = TRUE
    /\ demoCard' = OfflineUpdate(demoCard, quality, wasCorrect, now)
    /\ last' = Record("review", "offline", demoCard, quality, wasCorrect)
    /\ UNCHANGED <<now, card, entry, sessionVars, request, dueVars>>
    /\ UNCHANGED serverVars

-----------------------------------------------------------------------------
(* StudySessionPage: the session-local calculateSM2 *)

SM2EaseMax == 250       \* Math.min(2.5, ...)
SM2Growth == 150        \* interval * 1.5
SM2Shrink == 70         \* interval * 0.7
SM2IntervalMax == 365   \* Math.min(365, interval)

\* The paw ratings of StudyCard: keys and buttons 1 to 4.
PawRatings == {Q(1), Q(2), Q(3), Q(4)}

SM2SuccessStageInterval(c, quality, cc) ==
    CASE c.stage = "new" ->
           [stage |-> "learning",
            interval |-> IF quality = Q(4) THEN Days(2) ELSE Days(1)]
      [] c.stage = "learning" ->
           IF quality = Q(4) /\ cc >= 1
           THEN [stage |-> "review", interval |-> Days(4)]
           ELSE IF quality = Q(3) /\ cc >= 2
           THEN [stage |-> "review", interval |-> Days(3)]
           ELSE [stage |-> "learning",
                 interval |-> Days(Max(1, RoundMul(c.interval, SM2Growth)))]
      [] c.stage = "review" ->
           [stage |-> IF quality = Q(4) /\ cc >= 2 THEN "mastered"
                      ELSE IF quality = Q(3) /\ cc >= 3 THEN "mastered"
                      ELSE "review",
            interval |-> Days(RoundMul(c.interval, c.easeFactor))]
      [] c.stage = "mastered" ->
           [stage |-> "mastered",
            interval |-> Days(RoundMul(c.interval, c.easeFactor))]

SM2SuccessEase(ease, quality) ==
    IF quality = Q(4) THEN Min(SM2EaseMax, ease + 10)
    ELSE IF quality = Q(3) THEN Min(SM2EaseMax, ease + 5)
    ELSE ease

SM2FailureEase(ease, quality) ==
    IF quality = Q(1) THEN Max(EaseMin, ease - 20) ELSE Max(EaseMin, ease - 10)

SM2FailureStageInterval(c, quality) ==
    IF quality = Q(1)
    THEN [stage |-> IF c.stage = "review" \/ c.stage = "mastered"
                    THEN "learning" ELSE c.stage,
          interval |-> QuarterDay]
    ELSE [stage |-> c.stage,
          interval |-> Max(HalfDay, Days(RoundMul(c.interval, SM2Shrink)))]

\* interval = Math.max(0.25, Math.min(365, interval))
SM2ClampInterval(interval) == Max(QuarterDay, Min(Days(SM2IntervalMax), interval))

\* { interval, repetition, easeFactor, stage, consecutiveCorrect }
CalculateSM2(c, quality) ==
    IF quality >= Q(3)
    THEN LET cc == c.consecutiveCorrect + 1
             si == SM2SuccessStageInterval(c, quality, cc)
         IN  [interval |-> SM2ClampInterval(si.interval),
              repetition |-> c.repetition + 1,
              easeFactor |-> SM2SuccessEase(c.easeFactor, quality),
              stage |-> si.stage, consecutiveCorrect |-> cc]
    ELSE LET si == SM2FailureStageInterval(c, quality)
         IN  [interval |-> SM2ClampInterval(si.interval),
              repetition |-> IF quality = Q(1) THEN Max(0, c.repetition - 1)
                             ELSE c.repetition,
              easeFactor |-> SM2FailureEase(c.easeFactor, quality),
              stage |-> si.stage, consecutiveCorrect |-> 0]

\* The queue entry made of a card at session start:
\* { ...card, reviewCount: 0, nextShowTime: undefined }; calculateSM2 reads the
\* repetition the card does not have as 0.
QueueEntry(c) ==
    [stage |-> c.stage, interval |-> c.interval, easeFactor |-> c.easeFactor,
     consecutiveCorrect |-> c.consecutiveCorrect, reviewCount |-> 0,
     nextReviewAt |-> c.nextReviewAt, repetition |-> 0]

\* Object.assign(currentCardData, sm2Result); reviewCount + 1
ApplySM2(quality) ==
    /\ entry' = LET r == CalculateSM2(entry, quality)
                IN  [entry EXCEPT !.interval = r.interval,
                                  !.repetition = r.repetition,
                                  !.easeFactor = r.easeFactor,
                                  !.stage = r.stage,
                                  !.consecutiveCorrect = r.consecutiveCorrect,
                                  !.reviewCount = entry.reviewCount + 1]
    /\ last' = Record("review", "session", entry, quality, quality >= Q(3))
    /\ UNCHANGED <<now, card, demoCard, isDemoMode, sessionVars, request,
                   dueVars>>
    /\ UNCHANGED serverVars

-----------------------------------------------------------------------------
(* The study session page, the request and the card table before any use *)

\* handleSessionComplete has not run.
NoCompletion ==
    [sent |-> FALSE, cardsStudied |-> 0, cardsCorrect |-> 0, accuracy |-> 0]

\* useState([]), useState(0), useState({ studied: 0, correct: 0,
\* totalReviews: 0, ... }), useState(false)
NoSession ==
    /\ heap = <<>>
    /\ studyQueue = <<>>
    /\ currentCardIndex = 0
    /\ sessionStats = [studied |-> 0, correct |-> 0, totalReviews |-> 0]
    /\ isOfflineMode = FALSE
    /\ calls = <<>>
    /\ unsynced = {}
    /\ completion = NoCompletion

IdleRequest ==
    [state |-> "idle", quality |-> 0, wasCorrect |-> FALSE, retries |-> 0,
     status |-> 0, applied |-> 0, delay |-> 0]

NoRequest == request = IdleRequest

\* No review has been logged and the review handler has not been invoked.
NoServer ==
    /\ reviewHistory = 0
    /\ handlers = <<>>

\* No due-card query has been answered.
NoDueResult ==
    [site |-> "none", given |-> FALSE, limit |-> 0, at |-> 0, ids |-> <<>>,
     before |-> <<>>]

NoCards ==
    /\ cards = <<>>
    /\ dueResult = NoDueResult

-----------------------------------------------------------------------------
(* The server: one card, created at time 0 *)

Init ==
    /\ now = 0
    /\ card = FreshCard(0)
    /\ demoCard = FreshCard(0)
    /\ isDemoMode = FALSE
    /\ entry = QueueEntry(FreshCard(0))
    /\ last = Record("create", "server", FreshCard(0), 0, FALSE)
    /\ NoSession
    /\ NoRequest
    /\ NoServer
    /\ NoCards

Next ==
    \/ \E quality \in Qualities, wasCorrect \in BOOLEAN :
          /\ reviewHistory < MaxReviews
          /\ ServerReview(quality, wasCorrect)
    \/ ResetProgress
    \/ UpdateCard
    \/ Tick

Spec == Init /\ [][Next]_vars

-----------------------------------------------------------------------------
(* The three implementations side by side, started from any ease factor *)

MaxSiteReviews == 2     \* reviews applied in all, over the three stores
StartReviews == 3       \* the reviewCount of the stored card at the start

EaseValues == {e \in EaseMin..EaseMax : e % 5 = 0}

\* The ease factors a stored card of the stage can have: a card is new with
\* 2.5 (fresh) or after a failure in learning, and in learning it gains 0.1 at
\* most once before it graduates; review and mastered cards span the range.
StartEases(stage) ==
    {e \in EaseValues :
        e <= (CASE stage = "new" -> 250 [] stage = "learning" -> 270
                [] OTHER -> EaseMax)}

\* A stored card of the given stage and ease factor.  The interval and the
\* streak are those with which the server handler enters the stage (a new
\* card: after a failed review); the ease update reads neither.
StartCard(stage, ease) ==
    [stage |-> stage,
     interval |-> CASE stage = "new" -> QuarterDay
                    [] stage = "learning" -> Days(1)
                    [] stage = "review" -> Days(5)
                    [] stage = "mastered" -> Days(13),
     easeFactor |-> ease,
     consecutiveCorrect |-> CASE stage = "new" -> 0
                              [] stage = "learning" -> 1
                              [] stage = "review" -> 2
                              [] stage = "mastered" -> 3,
     reviewCount |-> StartReviews, nextReviewAt |-> 0]

SiteReviews ==
    (card.reviewCount - StartReviews) + (demoCard.reviewCount - StartReviews)
        + entry.reviewCount

InitSites ==
    /\ now = 0
    /\ \E stage \in Stages :
       \E ease \in StartEases(stage) :
          /\ card = StartCard(stage, ease)
          /\ demoCard = card
          /\ entry = QueueEntry(card)
          /\ last = Record("create", "server", card, 0, FALSE)
    /\ isDemoMode = FALSE
    /\ NoSession
    /\ NoRequest
    /\ NoServer
    /\ NoCards

NextSites ==
    \/ \E quality \in Qualities, wasCorrect \in BOOLEAN :
          /\ SiteReviews < MaxSiteReviews
          /\ ServerReview(quality, wasCorrect)
    \/ \E quality \in Qualities, wasCorrect \in BOOLEAN :
          /\ SiteReviews < MaxSiteReviews
          /\ OfflineReview(quality, wasCorrect)
    \/ \E quality \in PawRatings :
          /\ SiteReviews < MaxSiteReviews
          /\ ApplySM2(quality)

SpecSites == InitSites /\ [][NextSites]_vars

-----------------------------------------------------------------------------
(* The offline fallback alone: one card of localStorage, created at time 0 *)

MaxOfflineReviews == 4  \* reviews applied to the card of localStorage

NextOffline ==
    \/ \E quality \in Qualities, wasCorrect \in BOOLEAN :
          /\ demoCard.reviewCount < MaxOfflineReviews
          /\ OfflineReview(quality, wasCorrect)
    \/ Tick

SpecOffline == Init /\ [][NextOffline]_vars

-----------------------------------------------------------------------------
(* The study session page: studyQueue, currentCardIndex and handleCardReview *)
(*                                                                         *)
(* handleCardReview is an async function.  Up to its await it runs in one  *)
(* step: it copies the queue, computes calculateSM2 and assigns the result *)
(* to the entry object, which the copy shares with the queue on display.   *)
(* It then waits for ApiService.submitReview; what follows the await (or   *)
(* the catch block) runs later, again in one step, with the studyQueue,    *)
(* currentCardIndex and isOfflineMode its closure captured at the start.   *)
(* StudyCard calls it on every rating and the page does not disable the    *)
(* rating controls while a call waits.                                     *)

MaxCards == 3           \* cards a session starts with
MaxSessionReviews == 4  \* ratings given in a session
MaxPending == 2         \* handleCardReview invocations waiting at once

\* Cards the server hands to a session (stage other than mastered): a new
\* card, the card after one and two best ratings, and the latter failed.
SeedLearning == ServerUpdate(FreshCard(0), Q(4), TRUE, 0)
SeedReview == ServerUpdate(SeedLearning, Q(4), TRUE, 0)
SeedRelearning == ServerUpdate(SeedReview, Q(1), FALSE, 0)
SeedReviewStreak == ServerUpdate(SeedReview, Q(3), TRUE, 0)
AllSeedCards ==
    {FreshCard(0), SeedLearning, SeedReview, SeedRelearning, SeedReviewStreak}
\* The seeds of the sessions explored with all four ratings.
SeedCards == {FreshCard(0), SeedReview}

\* updatedQueue.splice(index, 1), the index counted from 0
RemoveAt(queue, index) ==
    SubSeq(queue, 1, index) \o SubSeq(queue, index + 2, Len(queue))

\* const currentCard = studyQueue[currentCardIndex]
HasCurrentCard == currentCardIndex < Len(studyQueue)
CurrentCard == studyQueue[currentCardIndex + 1]

\* const isSessionComplete = studyQueue.length === 0
IsSessionComplete == Len(studyQueue) = 0

\* fetchStudyData: the queue is the list of cards of the session response,
\* each with reviewCount 0; the pointer is 0.
FetchStudyData(seeds) ==
    /\ heap' = [id \in DOMAIN seeds |-> QueueEntry(seeds[id])]
    /\ studyQueue' = [i \in DOMAIN seeds |-> i]
    /\ currentCardIndex' = 0
    /\ UNCHANGED <<sessionStats, isOfflineMode, calls, unsynced>>
    /\ UNCHANGED <<now, card, demoCard, isDemoMode, entry, last, request,
                   dueVars>>
    /\ UNCHANGED <<serverVars, completion>>

\* Object.assign(currentCardData, sm2Result); reviewCount + 1
AssignSM2(e, quality) ==
    LET r == CalculateSM2(e, quality)
    IN  [e EXCEPT !.interval = r.interval,
                  !.repetition = r.repetition,
                  !.easeFactor = r.easeFactor,
                  !.stage = r.stage,
                  !.consecutiveCorrect = r.consecutiveCorrect,
                  !.reviewCount = e.reviewCount + 1]

\* reviewData.quality = Math.floor(quality); it must be an integer of 1..4
ValidRating(quality) ==
    LET floor == quality \div 10 IN floor >= 1 /\ floor <= 4

\* What an invocation keeps across its await: the card rated, the queue and
\* the index of its closure, shouldRemoveFromQueue, wasCorrect and the
\* isOfflineMode of its closure, and the quality of its reviewData,
\* Math.floor(quality).  shown counts the placements made before the rating:
\* it tells the presentations of a card apart.
Invocation(quality, wasCorrect) ==
    [card |-> CurrentCard, queue |-> studyQueue, index |-> currentCardIndex,
     remove |-> AssignSM2(heap[CurrentCard], quality).stage = "mastered",
     quality |-> Q(quality \div 10),
     wasCorrect |-> wasCorrect, offline |-> isOfflineMode,
     shown |-> sessionStats.totalReviews]

\* setSessionStats(prev => ...), the same in both paths
StatsAfter(stats, c) ==
    [studied |-> stats.studied + (IF c.remove THEN 1 ELSE 0),
     correct |-> stats.correct + (IF c.wasCorrect THEN 1 ELSE 0),
     totalReviews |-> stats.totalReviews + 1]

\* the queue handed to setStudyQueue, the same in both paths
PlacedQueue(c) == IF c.remove THEN RemoveAt(c.queue, c.index) ELSE c.queue

\* The success path without the reset to 0 after a removal at the end.
SuccessIndex_NoWrap(c, index) ==
    IF c.remove THEN index
    ELSE IF c.index + 1 >= Len(c.queue) THEN 0 ELSE c.index + 1

\* The pointer after the success path; index is the pointer on display, which
\* the removal leaves alone unless the closure's index passed the end.
SuccessIndex(c, index) ==
    IF c.remove
    THEN IF c.index >= Len(PlacedQueue(c)) /\ Len(PlacedQueue(c)) > 0
         THEN 0 ELSE index
    ELSE IF c.index + 1 >= Len(c.queue) THEN 0 ELSE c.index + 1

\* The pointer after the catch block: nextIndex starts as the closure's index.
CatchIndex(c) ==
    IF c.remove
    THEN IF c.index >= Len(PlacedQueue(c)) /\ Len(PlacedQueue(c)) > 0
         THEN 0 ELSE c.index
    ELSE (c.index + 1) % Len(c.queue)

\* The catch block of handleCardReview for the invocation c.
Catch(c) ==
    /\ isOfflineMode' = IF ~c.offline THEN TRUE ELSE isOfflineMode
    /\ studyQueue' = PlacedQueue(c)
    /\ currentCardIndex' = CatchIndex(c)
    /\ sessionStats' = StatsAfter(sessionStats, c)
    /\ unsynced' = unsynced \cup {c.card}

\* handleCardReview up to its await.  A rating that fails the validation is
\* thrown into the catch block before anything is sent.
HandleCardReview(quality, wasCorrect) ==
    /\ HasCurrentCard
    /\ heap' = [heap EXCEPT ![CurrentCard] = AssignSM2(@, quality)]
    /\ IF ValidRating(quality)
       THEN /\ calls' = Append(calls, Invocation(quality, wasCorrect))
            /\ UNCHANGED <<studyQueue, currentCardIndex, sessionStats,
                           isOfflineMode, unsynced>>
       ELSE /\ Catch(Invocation(quality, wasCorrect))
            /\ UNCHANGED calls
    /\ UNCHANGED <<now, card, demoCard, isDemoMode, entry, last, request,
                   dueVars>>
    /\ UNCHANGED <<serverVars, completion>>

\* handleCardReview after its await, ApiService.submitReview having resolved.
ReviewPersisted(i) ==
    LET c == calls[i] IN
    /\ isOfflineMode' = IF c.offline THEN FALSE ELSE isOfflineMode
    /\ sessionStats' = StatsAfter(sessionStats, c)
    /\ studyQueue' = PlacedQueue(c)
    /\ currentCardIndex' = SuccessIndex(c, currentCardIndex)
    /\ unsynced' = unsynced \ {c.card}
    /\ calls' = RemoveAt(calls, i - 1)
    /\ UNCHANGED heap
    /\ UNCHANGED <<now, card, demoCard, isDemoMode, entry, last, request,
                   dueVars>>
    /\ UNCHANGED <<serverVars, completion>>

\* handleCardReview after its await, ApiService.submitReview having rejected.
ReviewFailed(i) ==
    /\ Catch(calls[i])
    /\ calls' = RemoveAt(calls, i - 1)
    /\ UNCHANGED heap
    /\ UNCHANGED <<now, card, demoCard, isDemoMode, entry, last, request,
                   dueVars>>
    /\ UNCHANGED <<serverVars, completion>>

\* The session response of a mounted page: one to MaxCards cards.
SessionResponses ==
    UNION {[1..n -> SeedCards] : n \in 1..MaxCards}

RatingsGiven == sessionStats.totalReviews + Len(calls)

\* A session in which every rating waits for the placement of the one before.
NextSession ==
    \/ \E seeds \in SessionResponses :
          /\ heap = <<>>
          /\ FetchStudyData(seeds)
    \/ \E quality \in PawRatings :
          /\ calls = <<>>
          /\ RatingsGiven < MaxSessionReviews
          /\ HandleCardReview(quality, quality >= Q(3))
    \/ \E i \in DOMAIN calls : ReviewPersisted(i)
    \/ \E i \in DOMAIN calls : ReviewFailed(i)

SpecSession == Init /\ [][NextSession]_vars

\* A session in which ratings are given while earlier ones still wait, as the
\* rating keys and buttons of StudyCard allow.
NextOverlap ==
    \/ \E seeds \in SessionResponses :
          /\ heap = <<>>
          /\ FetchStudyData(seeds)
    \/ \E quality \in PawRatings :
          /\ Len(calls) < MaxPending
          /\ RatingsGiven < MaxSessionReviews
          /\ HandleCardReview(quality, quality >= Q(3))
    \/ \E i \in DOMAIN calls : ReviewPersisted(i)
    \/ \E i \in DOMAIN calls : ReviewFailed(i)

SpecOverlap == Init /\ [][NextOverlap]_vars

\* A session of any cards in which every rating is the best one, given for
\* the current card as long as there is one; each call of submitReview ends.
NextGraduate ==
    \/ \E seeds \in UNION {[1..n -> AllSeedCards] : n \in 1..MaxCards} :
          /\ heap = <<>>
          /\ FetchStudyData(seeds)
    \/ /\ calls = <<>>
       /\ HandleCardReview(Q(4), TRUE)
    \/ \E i \in DOMAIN calls : ReviewPersisted(i)
    \/ \E i \in DOMAIN calls : ReviewFailed(i)

\* The page fetches on mount, the user goes on rating and the promise of
\* submitReview is always settled (the retries are bounded): a step that can
\* be taken is taken.
SpecGraduate == Init /\ [][NextGraduate]_vars /\ WF_vars(NextGraduate)

\* The same with the rating of 4 given again while earlier calls wait.
NextGraduateOverlap ==
    \/ \E seeds \in SessionResponses :
          /\ heap = <<>>
          /\ FetchStudyData(seeds)
    \/ /\ Len(calls) < MaxPending
       /\ HandleCardReview(Q(4), TRUE)
    \/ \E i \in DOMAIN calls : ReviewPersisted(i)
    \/ \E i \in DOMAIN calls : ReviewFailed(i)

SpecGraduateOverlap ==
    Init /\ [][NextGraduateOverlap]_vars /\ WF_vars(NextGraduateOverlap)

-----------------------------------------------------------------------------
(* ApiService.submitReview: one POST /api/study/review and its retries *)
(*                                                                         *)
(* The server handler updates the card (prisma.card.update) and then       *)
(* writes the history row (prisma.reviewHistory.create) as two separate    *)
(* statements; an exception in between or after is answered with 500.  The *)
(* client gives up waiting after 10 s, and its interceptor turns an error  *)
(* that carries no response into status 500 unless it is a network error.  *)

MaxApplied == 3         \* reviews applied to the stored cards in all
RetryLimit == 2         \* retries < 2
ValidationFailed == 400 \* res.status(400), a ZodError
NotFound == 404         \* res.status(404)
ServerError == 500      \* res.status(500); error.response?.status || 500

\* A plausible slip: the isDemoMode of the error is not looked at.
AfterError_IgnoresDemoFlag(r, status, demo) ==
    IF status = 0 THEN "fallback"
    ELSE IF r.retries < RetryLimit /\ (status = 0 \/ status >= ServerError)
    THEN "backoff"
    ELSE "rejected"

\* A plausible slip: every error status is retried.
AfterError_RetryAnyError(r, status, demo) ==
    IF demo \/ status = 0 THEN "fallback"
    ELSE IF r.retries < RetryLimit /\ (status = 0 \/ status >= ValidationFailed)
    THEN "backoff"
    ELSE "rejected"

\* What the catch block of submitReview does with an error of this status,
\* demo being the isDemoMode of the error.
AfterError(r, status, demo) ==
    IF demo \/ status = 0 THEN "fallback"
    ELSE IF r.retries < RetryLimit /\ (status = 0 \/ status >= ServerError)
    THEN "backoff"
    ELSE "rejected"

\* setTimeout(resolve, 1000 * (retries + 1)), in milliseconds
BackoffDelay(retries) == 1000 * (retries + 1)

\* The delay of the request r once the error of this status is handled.
DelayAfterError(r, status, demo) ==
    IF AfterError(r, status, demo) = "backoff" THEN BackoffDelay(r.retries)
    ELSE r.delay

\* ApiService.submitReview(reviewData): the request is posted.
SubmitReview(quality, wasCorrect) ==
    /\ request.state = "idle"
    /\ request' = [state |-> "posted", quality |-> quality,
                   wasCorrect |-> wasCorrect, retries |-> 0, status |-> 0,
                   applied |-> 0, delay |-> 0]
    /\ UNCHANGED <<now, card, demoCard, isDemoMode, entry, last, sessionVars,
                   dueVars>>
    /\ UNCHANGED serverVars

\* The handler runs to its end and the response arrives in time.
ReviewAnswered ==
    /\ request.state = "posted"
    /\ card' = ServerUpdate(card, request.quality, request.wasCorrect, now)
    /\ last' = Record("review", "server", card, request.quality,
                      request.wasCorrect)
    /\ request' = [request EXCEPT !.state = "resolved",
                                  !.applied = request.applied + 1]
    /\ reviewHistory' = reviewHistory + 1
    /\ UNCHANGED <<now, demoCard, isDemoMode, entry, sessionVars, dueVars,
                   handlers>>

\* The handler updates the card and the client gets no success: either
\* prisma.reviewHistory.create throws and the handler answers 500, or the
\* answer comes after the 10 s of the client, which the interceptor reports
\* as status 500.
ReviewAppliedUnanswered ==
    /\ request.state = "posted"
    /\ card' = ServerUpdate(card, request.quality, request.wasCorrect, now)
    /\ last' = Record("review", "server", card, request.quality,
                      request.wasCorrect)
    /\ request' = [request EXCEPT
                     !.state = AfterError(request, ServerError, isDemoMode),
                     !.status = ServerError,
                     !.applied = request.applied + 1,
                     !.delay = DelayAfterError(request, ServerError,
                                               isDemoMode)]
    /\ \E logged \in BOOLEAN :
          reviewHistory' = reviewHistory + (IF logged THEN 1 ELSE 0)
    /\ UNCHANGED <<now, demoCard, isDemoMode, entry, sessionVars, dueVars,
                   handlers>>

\* The handler answers with an error before it updates the card: the card is
\* not found (404) or a query throws (500).
ReviewRefused(status) ==
    /\ request.state = "posted"
    /\ request' = [request EXCEPT
                     !.state = AfterError(request, status, isDemoMode),
                     !.status = status,
                     !.delay = DelayAfterError(request, status, isDemoMode)]
    /\ UNCHANGED <<now, card, demoCard, isDemoMode, entry, last, sessionVars,
                   dueVars>>
    /\ UNCHANGED serverVars

\* The server is not reached: the interceptor sets isDemoMode and rejects
\* with status 0.
NetworkError ==
    /\ request.state = "posted"
    /\ isDemoMode' = TRUE
    /\ request' = [request EXCEPT !.state = AfterError(request, 0, TRUE),
                                  !.status = 0]
    /\ UNCHANGED <<now, card, demoCard, entry, last, sessionVars, dueVars>>
    /\ UNCHANGED serverVars

\* The fallback of submitReview applies the review to the card of
\* localStorage and resolves.
FallbackReview ==
    /\ request.state = "fallback"
    /\ isDemoMode' = TRUE
    /\ demoCard' = OfflineUpdate(demoCard, request.quality,
                                 request.wasCorrect, now)
    /\ last' = Record("review", "offline", demoCard, request.quality,
                      request.wasCorrect)
    /\ request' = [request EXCEPT !.state = "resolved",
                                  !.applied = request.applied + 1]
    /\ UNCHANGED <<now, card, entry, sessionVars, dueVars>>
    /\ UNCHANGED serverVars

\* The timer of the backoff fires: this.submitReview(reviewData, retries + 1)
RetryReview ==
    /\ request.state = "backoff"
    /\ request' = [request EXCEPT !.state = "posted",
                                  !.retries = request.retries + 1]
    /\ UNCHANGED <<now, card, demoCard, isDemoMode, entry, last, sessionVars,
                   dueVars>>
    /\ UNCHANGED serverVars

\* The promise of submitReview is settled and the caller goes on.
ReviewSettled ==
    /\ request.state \in {"resolved", "rejected"}
    /\ request' = IdleRequest
    /\ UNCHANGED <<now, card, demoCard, isDemoMode, entry, last, sessionVars,
                   dueVars>>
    /\ UNCHANGED serverVars

NextSubmit ==
    \/ \E quality \in PawRatings :
          /\ card.reviewCount + demoCard.reviewCount < MaxApplied
          /\ SubmitReview(quality, quality >= Q(3))
    \/ ReviewAnswered
    \/ ReviewAppliedUnanswered
    \/ \E status \in {NotFound, ServerError} : ReviewRefused(status)
    \/ NetworkError
    \/ FallbackReview
    \/ RetryReview
    \/ ReviewSettled

SpecSubmit == Init /\ [][NextSubmit]_vars

\* The same with the validation error among the answers, and every answer,
\* timer and continuation arriving in the end: axios settles a request
\* within its timeout and setTimeout fires.
NextRetry ==
    \/ \E quality \in PawRatings :
          /\ card.reviewCount + demoCard.reviewCount < MaxApplied
          /\ SubmitReview(quality, quality >= Q(3))
    \/ ReviewAnswered
    \/ ReviewAppliedUnanswered
    \/ \E status \in {ValidationFailed, NotFound, ServerError} :
          ReviewRefused(status)
    \/ NetworkError
    \/ FallbackReview
    \/ RetryReview
    \/ ReviewSettled

SpecRetry == Init /\ [][NextRetry]_vars /\ WF_vars(NextRetry)

-----------------------------------------------------------------------------
(* The due-card query: GET /api/study/due and the fallback of getDueCards *)
(*                                                                         *)
(* cards is the card collection that is queried: the table of the server,  *)
(* or the array koda_demo_cards of localStorage.  The fallback reads its    *)
(* cards through JSON.parse, which gives every date back as the ISO string *)
(* JSON.stringify wrote.                                                   *)

MaxDueCards == 3        \* cards in the collection
MaxDueTime == 2         \* the latest nextReviewAt of a card, in ticks
MaxCreated == 1         \* the latest createdAt of a card, in ticks

\* The stages of the cards of the collection: the stage that is due at any
\* time and one that is due by its date.
DueStages == {"new", "review"}

\* The limit of a query: none, or a number.
Limits ==
    {[given |-> FALSE, n |-> 0]}
        \cup {[given |-> TRUE, n |-> k] : k \in 0..MaxDueCards}

\* The sequences that hold each element of S once.
Arrangements(S) ==
    {f \in [1..Cardinality(S) -> S] :
        \A i, j \in 1..Cardinality(S) : i # j => f[i] # f[j]}

\* orderBy: [{ nextReviewAt: 'asc' }, { createdAt: 'asc' }]
Before(a, b) ==
    \/ a.nextReviewAt < b.nextReviewAt
    \/ a.nextReviewAt = b.nextReviewAt /\ a.createdAt < b.createdAt

\* The where clause with lt in the place of lte.
ServerDue_StrictlyBefore(row) == row.nextReviewAt < now \/ row.stage = "new"

\* where: { OR: [{ nextReviewAt: { lte: new Date() } }, { stage: 'new' }] }
ServerDue(row) == row.nextReviewAt <= now \/ row.stage = "new"

\* The answers findMany may give: the due rows in the order of orderBy, rows
\* equal in both keys in any order, cut to take rows.
ServerDueLists(limit) ==
    LET due == {id \in DOMAIN cards : ServerDue(cards[id])}
    IN  {SubSeq(f, 1, IF limit.given THEN Min(limit.n, Len(f)) ELSE Len(f)) :
           f \in {g \in Arrangements(due) :
                    \A i, j \in DOMAIN g :
                       i < j => ~Before(cards[g[j]], cards[g[i]])}}

\* GET /api/study/due
DueRequest(limit) ==
    /\ \E ids \in ServerDueLists(limit) :
          dueResult' = [site |-> "server", given |-> limit.given,
                        limit |-> limit.n, at |-> now, ids |-> ids,
                        before |-> cards]
    /\ UNCHANGED cards
    /\ UNCHANGED <<now, card, demoCard, isDemoMode, entry, last, sessionVars,
                   request>>
    /\ UNCHANGED serverVars

\* JSON.parse(JSON.stringify(date)): the ISO string of the date
IsoString(t) == [iso |-> t]

\* new Date(string).getTime()
TimeOfString(s) == s.iso

\* A card as getDemoData returns it.
DemoRow(row) ==
    [row EXCEPT !.nextReviewAt = IsoString(@), !.createdAt = IsoString(@)]

\* string <= date: the date is converted to its number and the ISO string to
\* a number as well, which is NaN; a comparison with NaN is false.
StringLteDate(s, t) == s # s

\* card.nextReviewAt <= now || card.stage === 'new'
FallbackDue(row) == StringLteDate(row.nextReviewAt, now) \/ row.stage = "new"

\* The comparator of dueCards.sort, less than 0
FallbackBefore(a, b) ==
    \/ TimeOfString(a.nextReviewAt) < TimeOfString(b.nextReviewAt)
    \/ /\ TimeOfString(a.nextReviewAt) = TimeOfString(b.nextReviewAt)
       /\ TimeOfString(a.createdAt) < TimeOfString(b.createdAt)

\* filter, sort (stable: cards equal in both keys keep the order of the
\* array) and limit ? sortedCards.slice(0, limit) : sortedCards
FallbackDueList(limit) ==
    LET rows == [id \in DOMAIN cards |-> DemoRow(cards[id])]
        due == {id \in DOMAIN rows : FallbackDue(rows[id])}
        sorted == CHOOSE f \in Arrangements(due) :
                     \A i, j \in DOMAIN f :
                        i < j => \/ FallbackBefore(rows[f[i]], rows[f[j]])
                                 \/ /\ ~FallbackBefore(rows[f[j]], rows[f[i]])
                                    /\ f[i] < f[j]
    IN  IF limit.given /\ limit.n # 0
        THEN SubSeq(sorted, 1, Min(limit.n, Len(sorted)))
        ELSE sorted

\* ApiService.getDueCards when the server is not reached
DueFallback(limit) ==
    /\ isDemoMode' = TRUE
    /\ dueResult' = [site |-> "offline", given |-> limit.given,
                     limit |-> limit.n, at |-> now,
                     ids |-> FallbackDueList(limit), before |-> cards]
    /\ UNCHANGED cards
    /\ UNCHANGED <<now, card, demoCard, entry, last, sessionVars, request>>
    /\ UNCHANGED serverVars

\* Any collection of one to MaxDueCards cards.
InitDue ==
    /\ now = 0
    /\ card = FreshCard(0)
    /\ demoCard = FreshCard(0)
    /\ isDemoMode = FALSE
    /\ entry = QueueEntry(FreshCard(0))
    /\ last = Record("create", "server", FreshCard(0), 0, FALSE)
    /\ NoSession
    /\ NoRequest
    /\ NoServer
    /\ \E n \in 1..MaxDueCards :
          cards \in [1..n -> [stage : DueStages,
                              nextReviewAt : 0..MaxDueTime,
                              createdAt : 0..MaxCreated]]
    /\ dueResult = NoDueResult

NextDue ==
    \/ \E limit \in Limits : DueRequest(limit)
    \/ \E limit \in Limits : DueFallback(limit)
    \/ Tick

SpecDue == InitDue /\ [][NextDue]_vars

\* The collection of three cards, none of them new, that are due one tick
\* before the query, at the very time of the query and one tick after it.
MaxExampleTime == 2     \* the latest time of the query

ExampleTimes(t) == {t - 1, t, t + 1}

InitExample ==
    /\ now \in 1..MaxExampleTime
    /\ card = FreshCard(0)
    /\ demoCard = FreshCard(0)
    /\ isDemoMode = FALSE
    /\ entry = QueueEntry(FreshCard(0))
    /\ last = Record("create", "server", FreshCard(0), 0, FALSE)
    /\ NoSession
    /\ NoRequest
    /\ NoServer
    /\ cards \in [1..Cardinality(ExampleTimes(now)) ->
                     [stage : Stages \ {"new"},
                      nextReviewAt : ExampleTimes(now),
                      createdAt : 0..MaxCreated]]
    /\ {cards[id].nextReviewAt : id \in DOMAIN cards} = ExampleTimes(now)
    /\ dueResult = NoDueResult

NextExample ==
    \/ \E limit \in Limits : DueRequest(limit)
    \/ \E limit \in Limits : DueFallback(limit)

SpecExample == InitExample /\ [][NextExample]_vars

-----------------------------------------------------------------------------
(* The start of a session: POST /api/study/session, the fallback of        *)
(* ApiService.startStudySession, and fetchStudyData of the page            *)
(*                                                                         *)
(* cards is the collection of the cards of the deck; dueResult holds the   *)
(* list of cards of the session response until fetchStudyData makes the    *)
(* queue of it.                                                            *)

MaxStartCards == 2      \* cards in the deck
MaxStartTime == 1       \* the latest nextReviewAt of a card of the deck

\* The card after three best ratings, which is mastered.
SeedMastered == ServerUpdate(SeedReview, Q(4), TRUE, 0)

\* A row of the deck: a memory state with its dates.
DeckRow(c, due, created) ==
    [stage |-> c.stage, interval |-> c.interval, easeFactor |-> c.easeFactor,
     consecutiveCorrect |-> c.consecutiveCorrect,
     reviewCount |-> c.reviewCount, nextReviewAt |-> due,
     createdAt |-> created]

DeckRows ==
    {DeckRow(c, due, created) :
        c \in {FreshCard(0), SeedReview, SeedMastered},
        due \in 0..MaxStartTime, created \in 0..MaxCreated}

\* A where clause that takes the cards of the deck whatever their stage.
ServerSessionCard_AnyStage(row) == row.stage \in Stages

\* where: { deckId, stage: { not: 'mastered' } }
ServerSessionCard(row) == row.stage # "mastered"

\* The answers findMany may give: the rows that are not mastered in the order
\* of orderBy, rows equal in both keys in any order, cut to maxCards rows.
ServerSessionLists(maxCards) ==
    LET rows == {id \in DOMAIN cards : ServerSessionCard(cards[id])}
    IN  {SubSeq(f, 1, Min(maxCards, Len(f))) :
           f \in {g \in Arrangements(rows) :
                    \A i, j \in DOMAIN g :
                       i < j => ~Before(cards[g[j]], cards[g[i]])}}

\* POST /api/study/session
StartStudySession(maxCards) ==
    /\ \E ids \in ServerSessionLists(maxCards) :
          dueResult' = [site |-> "server", given |-> TRUE,
                        limit |-> maxCards, at |-> now, ids |-> ids,
                        before |-> cards]
    /\ UNCHANGED cards
    /\ UNCHANGED <<now, card, demoCard, isDemoMode, entry, last, sessionVars,
                   request>>
    /\ UNCHANGED serverVars

\* deckCards.sort(...).slice(0, maxCards): the cards that are not mastered by
\* nextReviewAt alone; the sort is stable, so that cards of one nextReviewAt
\* keep the order of the array.
FallbackSessionList(maxCards) ==
    LET rows == [id \in DOMAIN cards |-> DemoRow(cards[id])]
        kept == {id \in DOMAIN rows : rows[id].stage # "mastered"}
        sorted == CHOOSE f \in Arrangements(kept) :
                     \A i, j \in DOMAIN f :
                        i < j =>
                          \/ TimeOfString(rows[f[i]].nextReviewAt)
                                < TimeOfString(rows[f[j]].nextReviewAt)
                          \/ /\ TimeOfString(rows[f[i]].nextReviewAt)
                                   = TimeOfString(rows[f[j]].nextReviewAt)
                             /\ f[i] < f[j]
    IN  SubSeq(sorted, 1, Min(maxCards, Len(sorted)))

\* ApiService.startStudySession when the server is not reached
StartStudySessionFallback(maxCards) ==
    /\ isDemoMode' = TRUE
    /\ dueResult' = [site |-> "offline", given |-> TRUE, limit |-> maxCards,
                     at |-> now, ids |-> FallbackSessionList(maxCards),
                     before |-> cards]
    /\ UNCHANGED cards
    /\ UNCHANGED <<now, card, demoCard, entry, last, sessionVars, request>>
    /\ UNCHANGED serverVars

\* Any deck of one to MaxStartCards cards.
InitStart ==
    /\ now = 0
    /\ card = FreshCard(0)
    /\ demoCard = FreshCard(0)
    /\ isDemoMode = FALSE
    /\ entry = QueueEntry(FreshCard(0))
    /\ last = Record("create", "server", FreshCard(0), 0, FALSE)
    /\ NoSession
    /\ NoRequest
    /\ NoServer
    /\ \E n \in 1..MaxStartCards : cards \in [1..n -> DeckRows]
    /\ dueResult = NoDueResult

\* The page asks for a session once and makes its queue of the cards of the
\* response, if there are any.
NextStart ==
    \/ \E maxCards \in 1..MaxStartCards :
          /\ dueResult.site = "none"
          /\ StartStudySession(maxCards)
    \/ \E maxCards \in 1..MaxStartCards :
          /\ dueResult.site = "none"
          /\ StartStudySessionFallback(maxCards)
    \/ /\ dueResult.site # "none"
       /\ heap = <<>>
       /\ Len(dueResult.ids) > 0
       /\ FetchStudyData([i \in DOMAIN dueResult.ids |->
                            cards[dueResult.ids[i]]])

SpecStart == InitStart /\ [][NextStart]_vars

-----------------------------------------------------------------------------
(* Properties of the server handler (Spec) *)

ServerReviewed == last.op = "review" /\ last.site = "server"

SuccessEdges ==
    {<<"new", "learning">>, <<"learning", "learning">>, <<"learning", "review">>,
     <<"review", "review">>, <<"review", "mastered">>, <<"mastered", "mastered">>}

FailureEdges ==
    {<<"mastered", "learning">>, <<"review", "learning">>, <<"learning", "new">>,
     <<"new", "new">>}

\* C1: a review applied by the server moves the stage only along the edges of
\* the state machine (the success edges when wasCorrect, the failure edges
\* otherwise) and never raises it by more than one stage.
C1_StageEdges ==
    ServerReviewed =>
        /\ <<last.before.stage, card.stage>> \in
               (IF last.wasCorrect THEN SuccessEdges ELSE FailureEdges)
        /\ StageRank(card.stage) <= StageRank(last.before.stage) + 1

\* Every edge is taken somewhere; this state is the one reached last, a
\* mastered card that fails after the four reviews that mastered it.
C1_Witness ==
    /\ ServerReviewed
    /\ last.before.stage = "mastered"
    /\ card.stage = "learning"

\* C2: a failed review on the server resets the streak, lowers the ease factor
\* by 0.2 but not below 1.3, and sets (stage, interval) to (learning, 1) from
\* mastered or review, (new, 0.5) from learning, (new, 0.25) from new; a fresh
\* card that fails stays new with interval 0.25.
C2_Failure ==
    (ServerReviewed /\ ~last.wasCorrect) =>
        /\ card.consecutiveCorrect = 0
        /\ card.easeFactor =
               (IF last.before.easeFactor - 20 < 130 THEN 130
                ELSE last.before.easeFactor - 20)
        /\ <<card.stage, card.interval>> =
               (CASE last.before.stage \in {"mastered", "review"} ->
                       <<"learning", 100>>
                  [] last.before.stage = "learning" -> <<"new", 50>>
                  [] last.before.stage = "new" -> <<"new", 25>>)
        /\ (/\ last.before.stage = "new"
            /\ last.before.interval = 100
            /\ last.before.easeFactor = 250)
           => (card.stage = "new" /\ card.interval = 25)

\* A failure on a card whose ease factor was already within 0.2 of the floor.
C2_Witness ==
    /\ ServerReviewed
    /\ ~last.wasCorrect
    /\ last.before.easeFactor < 150
    /\ card.easeFactor = 130

\* C3: the branch follows wasCorrect whatever the quality: a correct review
\* adds exactly 1 to the streak and does not lower the stage, an incorrect one
\* does not raise the stage and leaves the streak at 0.
C3_BranchOnWasCorrect ==
    ServerReviewed =>
        IF last.wasCorrect
        THEN /\ card.consecutiveCorrect = last.before.consecutiveCorrect + 1
             /\ StageRank(card.stage) >= StageRank(last.before.stage)
        ELSE /\ card.consecutiveCorrect = 0
             /\ StageRank(card.stage) <= StageRank(last.before.stage)

\* Quality and wasCorrect disagree: quality 5 reported as incorrect on a card
\* with a streak, which is demoted.
C3_Witness ==
    /\ ServerReviewed
    /\ ~last.wasCorrect
    /\ last.quality = 50
    /\ last.before.consecutiveCorrect >= 2
    /\ card.stage = "learning"

\* C4: a successful review of a learning card, with cc' the incremented streak:
\* cc' >= 2 and quality >= 3 moves it to review with interval 5 (quality >= 4)
\* or 4; otherwise it stays in learning with max(1, round(interval * 1.3)).
\* {learning, 1, 2.5, 1} with {quality 4, correct} gives {review, 5, 2.6, 2}.
C4_LearningSuccess ==
    (ServerReviewed /\ last.wasCorrect /\ last.before.stage = "learning") =>
        LET b == last.before
            cc1 == b.consecutiveCorrect + 1
            grown == (b.interval * 130 + 5000) \div 10000
        IN  /\ IF cc1 >= 2 /\ last.quality >= 30
               THEN /\ card.stage = "review"
                    /\ card.interval = (IF last.quality >= 40 THEN 500 ELSE 400)
               ELSE /\ card.stage = "learning"
                    /\ card.interval = 100 * (IF grown >= 1 THEN grown ELSE 1)
            /\ (/\ b.interval = 100
                /\ b.easeFactor = 250
                /\ b.consecutiveCorrect = 1
                /\ last.quality = 40)
               => /\ card.stage = "review"
                  /\ card.interval = 500
                  /\ card.easeFactor = 260
                  /\ card.consecutiveCorrect = 2

\* The scenario of the specification, reached by the server.
C4_Witness ==
    /\ ServerReviewed
    /\ last.wasCorrect
    /\ last.quality = 40
    /\ last.before.stage = "learning"
    /\ last.before.interval = 100
    /\ last.before.easeFactor = 250
    /\ last.before.consecutiveCorrect = 1
    /\ card.stage = "review"

\* C5: a successful review of a review card masters it exactly when
\* (cc' >= 3 and quality >= 4) or (cc' >= 4 and quality >= 3); either way the
\* interval becomes max(1, round(interval * easeFactor)) with the ease factor
\* the card had before this review.
C5_ReviewSuccess ==
    (ServerReviewed /\ last.wasCorrect /\ last.before.stage = "review") =>
        LET b == last.before
            cc1 == b.consecutiveCorrect + 1
            grown == (b.interval * b.easeFactor + 5000) \div 10000
        IN  /\ card.stage \in {"review", "mastered"}
            /\ card.stage = "mastered" <=>
                   \/ cc1 >= 3 /\ last.quality >= 40
                   \/ cc1 >= 4 /\ last.quality >= 30
            /\ card.interval = 100 * (IF grown >= 1 THEN grown ELSE 1)

\* Mastered through the second disjunct (quality 3 on the fourth correct
\* answer), with an interval that the adjusted ease factor would round
\* differently.
C5_Witness ==
    /\ ServerReviewed
    /\ last.wasCorrect
    /\ last.before.stage = "review"
    /\ last.quality = 30
    /\ card.stage = "mastered"
    /\ (last.before.interval * card.easeFactor + 5000) \div 10000
           # card.interval \div 100

\* C7: after a successful review the interval is at least 1 day when the card
\* is in review or mastered, and a card that was mastered stays mastered with
\* max(7, round(interval * easeFactor)), hence at least 7 days.
C7_IntervalFloors ==
    (ServerReviewed /\ last.wasCorrect) =>
        /\ card.stage \in {"review", "mastered"} => card.interval >= 100
        /\ last.before.stage = "mastered" =>
               LET grown == (last.before.interval * last.before.easeFactor + 5000)
                                \div 10000
               IN  /\ card.stage = "mastered"
                   /\ card.interval >= 700
                   /\ card.interval = 100 * (IF grown >= 7 THEN grown ELSE 7)

\* A mastered card reviewed successfully.
C7_Witness ==
    /\ ServerReviewed
    /\ last.wasCorrect
    /\ last.before.stage = "mastered"
    /\ card.stage = "mastered"

\* C8: the stored nextReviewAt is the time of the review plus the new interval
\* in days (a day is 4 ticks, the interval is in hundredths of a day).
C8_NextReviewAt ==
    ServerReviewed => 100 * (card.nextReviewAt - last.at) = 4 * card.interval

\* C9 as stated: every review adds exactly 1 to reviewCount and no operation
\* on an existing card (review, reset-progress, edit) lowers it.
C9_NeverDecreases ==
    /\ ServerReviewed => card.reviewCount = last.before.reviewCount + 1
    /\ last.site = "server" => card.reviewCount >= last.before.reviewCount

\* C9 amended: every review adds exactly 1 to reviewCount, a card edit leaves
\* it unchanged, and reset-progress sets it to 0.
C9_ReviewCount ==
    /\ ServerReviewed => card.reviewCount = last.before.reviewCount + 1
    /\ last.op = "edit" => card.reviewCount = last.before.reviewCount
    /\ last.op = "reset" => card.reviewCount = 0

\* A card reviewed twice since its creation or reset, and reviewed again.
C9_Witness ==
    /\ ServerReviewed
    /\ last.before.reviewCount = 2
    /\ card.reviewCount = 3

-----------------------------------------------------------------------------
(* Properties of the three implementations (SpecSites, SpecOffline) *)

EaseInRange(c) == 130 <= c.easeFactor /\ c.easeFactor <= 280

\* C6: from any ease factor in [1.3, 2.8], every sequence of reviews leaves the
\* ease factor in [1.3, 2.8], in the server row, in the localStorage row of
\* the offline fallback and in the session entry of calculateSM2.
C6_EaseInRange ==
    /\ EaseInRange(card)
    /\ EaseInRange(demoCard)
    /\ EaseInRange(entry)

\* The upper clamp has held on the server (2.8 and an easy answer) and the
\* session has then pulled an ease factor of 2.8 down to its own cap.
C6_Witness ==
    /\ card.reviewCount = StartReviews + 1
    /\ card.easeFactor = 280
    /\ last.op = "review"
    /\ last.site = "session"
    /\ last.before.easeFactor = 280
    /\ entry.easeFactor = 250

\* C10: the offline fallback computes the stage, interval, ease factor and
\* streak that the server handler computes from the same card and outcome.
C10_OfflineMatchesServer ==
    (last.op = "review" /\ last.site = "offline") =>
        LET n == ServerApply(last.before, last.quality, last.wasCorrect)
        IN  /\ demoCard.stage = n.stage
            /\ demoCard.interval = n.interval
            /\ demoCard.easeFactor = n.easeFactor
            /\ demoCard.consecutiveCorrect = n.consecutiveCorrect

-----------------------------------------------------------------------------
(* Properties of ApiService.submitReview (SpecSubmit) *)

\* C11: a review outcome, the request of one rating, is applied to the stored
\* memory state of the card at most once, whatever the server failures, the
\* timeouts and the retries of submitReview.
C11_AppliedAtMostOnce == request.applied <= 1

-----------------------------------------------------------------------------
(* Properties of the session queue (SpecSession, SpecOverlap) *)

Range(f) == {f[i] : i \in DOMAIN f}

\* A step that places a review: both paths of handleCardReview add one to
\* sessionStats.totalReviews together with their queue update.
Placement == sessionStats'.totalReviews = sessionStats.totalReviews + 1

\* The pointer after the current entry, back to 0 past the end.
NextIndex == IF currentCardIndex + 1 >= Len(studyQueue) THEN 0
             ELSE currentCardIndex + 1

\* C12: once the queue is seeded, a review removes the current entry when and
\* only when the entry is mastered after it; otherwise the queue stays as it
\* is and the pointer moves on by one, back to 0 past the end.  No other step
\* changes the queue, and no step puts an entry into it.
C12_RemovalOnlyOnMastery ==
    [][heap # <<>> =>
         /\ Range(studyQueue') \subseteq Range(studyQueue)
         /\ IF Placement
            THEN /\ HasCurrentCard
                 /\ IF heap[CurrentCard].stage = "mastered"
                    THEN studyQueue' = RemoveAt(studyQueue, currentCardIndex)
                    ELSE /\ studyQueue' = studyQueue
                         /\ currentCardIndex' = NextIndex
            ELSE studyQueue' = studyQueue]_vars

\* C13: with ratings processed one after another, the pointer designates an
\* entry of the queue exactly when the queue is not empty; there is no current
\* card exactly when the session is complete.
C13_PointerInRange == HasCurrentCard <=> ~IsSessionComplete

\* An entry was removed and the pointer designates one of those that remain.
C13_Witness ==
    /\ sessionStats.studied >= 1
    /\ ~IsSessionComplete
    /\ HasCurrentCard

\* C14: a session of N cards that are not mastered, rated 4 and correct for
\* the current card again and again, comes to an empty queue and stays there;
\* the sessions explored are finite, so the reviews it takes are bounded.
C14_QueueEmpties == <>[](heap # <<>> /\ IsSessionComplete)

\* The reviews of a card that have been placed: those applied to its entry
\* less those whose call still waits.
PlacedReviews(id) ==
    heap[id].reviewCount - Cardinality({i \in DOMAIN calls : calls[i].card = id})

\* C15: the queue rotates round-robin.  An entry whose review did not master
\* it stays in the queue, so that it comes up again; and in every round each
\* entry of the queue is presented once: the entries before the pointer have
\* had one review more than the entries from the pointer on.
C15_RoundRobin ==
    /\ \A id \in DOMAIN heap :
          (heap[id].stage # "mastered" /\ PlacedReviews(id) = heap[id].reviewCount)
             => id \in Range(studyQueue)
    /\ \A p, q \in DOMAIN studyQueue :
          p < q =>
             PlacedReviews(studyQueue[p]) - PlacedReviews(studyQueue[q])
                = IF p <= currentCardIndex /\ currentCardIndex < q
                  THEN 1 ELSE 0

\* What the session shows after the success path of the invocation c.
AfterSuccess(c) ==
    [studyQueue |-> PlacedQueue(c),
     currentCardIndex |-> SuccessIndex(c, currentCardIndex),
     sessionStats |-> StatsAfter(sessionStats, c)]

\* What the session shows after the catch block of the invocation c.
AfterCatch(c) ==
    [studyQueue |-> PlacedQueue(c),
     currentCardIndex |-> CatchIndex(c),
     sessionStats |-> StatsAfter(sessionStats, c)]

\* C16: a review whose submitReview rejects is placed as it would have been
\* had submitReview resolved: for every call that waits, the catch block and
\* the success path lead to the same queue, pointer and counters (the entry
\* has its new memory state before the call in both cases).
C16_FailureAdvancesAsSuccess ==
    \A i \in DOMAIN calls : AfterCatch(calls[i]) = AfterSuccess(calls[i])

\* C17: the queue advances at once after a rating, before submitReview has
\* returned: while a call waits for submitReview the session no longer shows
\* the queue, the pointer and the count of placed reviews the rating found.
C17_AdvancesBeforePersistence ==
    \A i \in DOMAIN calls :
       ~ /\ studyQueue = calls[i].queue
         /\ currentCardIndex = calls[i].index
         /\ sessionStats.totalReviews = calls[i].shown

\* C18: a review is applied in one step, so that no rating is taken between
\* the update of the entry and its placement: two calls never wait with
\* transitions applied to the same presentation of a card.
C18_OneTransitionPerPresentation ==
    \A i, j \in DOMAIN calls :
       (i # j /\ calls[i].card = calls[j].card)
          => calls[i].shown # calls[j].shown

\* C19: the offline flag of the session tells the entries whose latest review
\* was applied locally only from those whose reviews were persisted: as long
\* as the latest review of some entry has not been persisted the flag is set.
C19_FlagTellsUnsynced == unsynced # {} => isOfflineMode

-----------------------------------------------------------------------------
(* Properties of the due-card query (SpecDue) *)

\* The cards of the collection that were due when the last query was made.
DueAtQuery ==
    {id \in DOMAIN cards :
        cards[id].stage = "new" \/ cards[id].nextReviewAt <= dueResult.at}

\* C20: the answer of a due-card query holds exactly the due cards (stage new
\* or nextReviewAt not after now), each once, by nextReviewAt and then by
\* createdAt ascending, cut to the first limit of them when a limit is given,
\* and the query leaves the cards as they were.
C20_DueQuery ==
    dueResult.site # "none" =>
       LET ids == dueResult.ids IN
       /\ \A i, j \in DOMAIN ids : i # j => ids[i] # ids[j]
       /\ Range(ids) \subseteq DueAtQuery
       /\ Len(ids) = IF dueResult.given
                     THEN Min(dueResult.limit, Cardinality(DueAtQuery))
                     ELSE Cardinality(DueAtQuery)
       /\ \A i, j \in DOMAIN ids :
             i < j => ~Before(cards[ids[j]], cards[ids[i]])
       /\ \A a \in DueAtQuery \ Range(ids) :
             \A i \in DOMAIN ids : ~Before(cards[a], cards[ids[i]])
       /\ cards = dueResult.before

\* The collection is the one of the example for a query made at time t.
IsExample(t) ==
    /\ Cardinality(DOMAIN cards) = Cardinality(ExampleTimes(t))
    /\ {cards[id].nextReviewAt : id \in DOMAIN cards} = ExampleTimes(t)
    /\ \A id \in DOMAIN cards : cards[id].stage # "new"

\* The card of the collection with this nextReviewAt.
CardDueAt(t) == CHOOSE id \in DOMAIN cards : cards[id].nextReviewAt = t

\* C21 as stated: of three cards, none new, with nextReviewAt T + 1, T - 1
\* and T, a due-card query without limit made at T returns one card only,
\* that of T - 1.
C21_OnlyEarlierCard ==
    (dueResult.site # "none" /\ ~dueResult.given /\ IsExample(dueResult.at))
       => dueResult.ids = <<CardDueAt(dueResult.at - 1)>>

\* C21 as the server computes it: the query made at T returns two cards, that
\* of T - 1 and then that of T, because a card is due from its nextReviewAt
\* on (lte); the card of T + 1 is not returned.
C21_DueFromNextReviewAt ==
    (dueResult.site = "server" /\ ~dueResult.given
        /\ IsExample(dueResult.at))
       => dueResult.ids = <<CardDueAt(dueResult.at - 1),
                            CardDueAt(dueResult.at)>>

\* The server has answered a query without limit on the three cards.
C21_Witness ==
    /\ dueResult.site = "server"
    /\ ~dueResult.given
    /\ IsExample(dueResult.at)
    /\ Len(dueResult.ids) > 1

-----------------------------------------------------------------------------
(* Properties of the session start (SpecStart) *)

\* The queue has just been made of the session response.
SessionStarted == heap # <<>> /\ sessionStats.totalReviews = 0 /\ calls = <<>>

\* The row of the deck behind the entry at place i of the queue.
RowOfEntry(i) == cards[dueResult.ids[studyQueue[i]]]

\* C22 as stated: every entry of the queue at session start is due (new, or
\* nextReviewAt not after the time of the start), and the entries are by
\* nextReviewAt and then by createdAt ascending.
C22_SeededFromDueSet ==
    SessionStarted =>
       /\ \A i \in DOMAIN studyQueue :
             \/ heap[studyQueue[i]].stage = "new"
             \/ heap[studyQueue[i]].nextReviewAt <= dueResult.at
       /\ \A i, j \in DOMAIN studyQueue :
             i < j => ~Before(RowOfEntry(j), RowOfEntry(i))

\* C22 as the code seeds the queue: the entries are the cards of the deck
\* that are not mastered, due or not, the first maxCards of them by
\* nextReviewAt ascending; the server orders cards of one nextReviewAt by
\* createdAt ascending.
C22_SeededFromNotMastered ==
    SessionStarted =>
       LET kept == {id \in DOMAIN cards : cards[id].stage # "mastered"}
           ids == dueResult.ids
       IN  /\ \A i \in DOMAIN studyQueue :
                 heap[studyQueue[i]] = QueueEntry(RowOfEntry(i))
           /\ Range(ids) \subseteq kept
           /\ \A i, j \in DOMAIN ids : i # j => ids[i] # ids[j]
           /\ Len(studyQueue) = Min(dueResult.limit, Cardinality(kept))
           /\ \A i, j \in DOMAIN studyQueue :
                 i < j => RowOfEntry(i).nextReviewAt
                             <= RowOfEntry(j).nextReviewAt
           /\ \A a \in kept \ Range(ids) :
                 \A i \in DOMAIN ids :
                    cards[ids[i]].nextReviewAt <= cards[a].nextReviewAt
           /\ dueResult.site = "server" =>
                 \A i, j \in DOMAIN studyQueue :
                    i < j => ~Before(RowOfEntry(j), RowOfEntry(i))

\* A session has started with an entry that is not due.
C22_Witness ==
    /\ SessionStarted
    /\ \E i \in DOMAIN studyQueue :
          /\ heap[studyQueue[i]].stage # "new"
          /\ heap[studyQueue[i]].nextReviewAt > dueResult.at

-----------------------------------------------------------------------------
(* The review handler, statement by statement *)

\* POST /api/study/review runs as one invocation per request; its awaits
\* (findUnique, card.update, reviewHistory.create) let the invocations of
\* several requests for the same card interleave.  An invocation is
\*   [quality, wasCorrect, pc, read, status]
\* with read the row that findUnique returned (<<>> while nothing was read)
\* and status the status of the response (0 while there is none).

MaxRequests == 2    \* requests that reach the review handler

Success == 200

\* A plausible slip: the upper limit of the schema left out.
ReviewSchema_NoMax(quality) == quality >= Q(0)

\* reviewSchema: quality: z.number().min(0).max(5)
ReviewSchema(quality) == quality >= Q(0) /\ quality <= Q(5)

\* Qualities outside the schema: -1 and 5.1.
OutOfRange == {0 - Q(1), Q(5) + 1}
\* The qualities sent to the handler that is followed step by step.
HandlerQualities == {Q(2), Q(3), Q(5)} \cup OutOfRange

\* reviewSchema.parse(req.body) and, when it passes, prisma.card.findUnique;
\* a ZodError is answered with 400 by the catch block.
ReviewReceived(quality, wasCorrect) ==
    /\ handlers' = Append(handlers,
          IF ReviewSchema(quality)
          THEN [quality |-> quality, wasCorrect |-> wasCorrect,
                pc |-> "found", read |-> <<card>>, status |-> 0]
          ELSE [quality |-> quality, wasCorrect |-> wasCorrect,
                pc |-> "answered", read |-> <<>>,
                status |-> ValidationFailed])
    /\ UNCHANGED <<now, card, demoCard, isDemoMode, entry, last, sessionVars,
                   request, dueVars, reviewHistory>>

\* The data of prisma.card.update: the values computed from the row the
\* invocation read, and the increment of the counter of the stored row.
HandlerUpdate(row, h, t) ==
    [ServerUpdate(h.read[1], h.quality, h.wasCorrect, t)
        EXCEPT !.reviewCount = row.reviewCount + 1]

\* await prisma.card.update(...)
ReviewUpdated(i) ==
    /\ handlers[i].pc = "found"
    /\ card' = HandlerUpdate(card, handlers[i], now)
    /\ last' = Record("review", "server", handlers[i].read[1],
                      handlers[i].quality, handlers[i].wasCorrect)
    /\ handlers' = [handlers EXCEPT ![i].pc = "updated"]
    /\ UNCHANGED <<now, demoCard, isDemoMode, entry, sessionVars, request,
                   dueVars, reviewHistory>>

\* await prisma.reviewHistory.create(...) and the response
ReviewLogged(i) ==
    /\ handlers[i].pc = "updated"
    /\ reviewHistory' = reviewHistory + 1
    /\ handlers' = [handlers EXCEPT ![i].pc = "answered",
                                    ![i].status = Success]
    /\ UNCHANGED <<now, card, demoCard, isDemoMode, entry, last, sessionVars,
                   request, dueVars>>

\* A plausible slip: the row is put back as the invocation read it.
CardAfterLogFailure_RolledBack(row, h) == h.read[1]

\* The row after prisma.reviewHistory.create has thrown: the two writes are
\* not in a transaction and the catch block only answers.
CardAfterLogFailure(row, h) == row

\* prisma.reviewHistory.create throws: the catch block answers 500.
ReviewLogFailed(i) ==
    /\ handlers[i].pc = "updated"
    /\ card' = CardAfterLogFailure(card, handlers[i])
    /\ handlers' = [handlers EXCEPT ![i].pc = "answered",
                                    ![i].status = ServerError]
    /\ UNCHANGED <<now, demoCard, isDemoMode, entry, last, sessionVars,
                   request, dueVars, reviewHistory>>

InitServer ==
    /\ now = 0
    /\ card \in SeedCards
    /\ demoCard = FreshCard(0)
    /\ isDemoMode = FALSE
    /\ entry = QueueEntry(FreshCard(0))
    /\ last = Record("create", "server", card, 0, FALSE)
    /\ NoSession
    /\ NoRequest
    /\ NoServer
    /\ NoCards

NextServer ==
    \/ \E quality \in HandlerQualities :
          /\ Len(handlers) < MaxRequests
          /\ ReviewReceived(quality, quality >= Q(3))
    \/ \E i \in DOMAIN handlers : ReviewUpdated(i)
    \/ \E i \in DOMAIN handlers : ReviewLogged(i)
    \/ \E i \in DOMAIN handlers : ReviewLogFailed(i)

SpecServer == InitServer /\ [][NextServer]_vars

\* C23: a review request whose quality lies outside 0..5 is answered with the
\* validation error before the handler reads or writes anything: the step
\* that receives it leaves the card and the review history as they were.
C23_InvalidQualityRejected ==
    [][(/\ Len(handlers') = Len(handlers) + 1
        /\ LET h == handlers'[Len(handlers')]
           IN  h.quality < Q(0) \/ h.quality > Q(5))
       => LET h == handlers'[Len(handlers')]
          IN  /\ h.status = ValidationFailed
              /\ h.pc = "answered"
              /\ h.read = <<>>
              /\ card' = card
              /\ reviewHistory' = reviewHistory]_vars

\* An invalid request was answered after a valid one had changed the card.
C23_Witness ==
    \E i, j \in DOMAIN handlers :
        /\ i < j
        /\ handlers[i].status = Success
        /\ handlers[j].quality > Q(5)
        /\ handlers[j].status = ValidationFailed
        /\ reviewHistory = 1

-----------------------------------------------------------------------------
(* Ratings outside the session's range *)

\* handleCardReview(quality, ...) takes any number: 0 and 5 lie outside the
\* range 1..4 and 3.5 is not an integer.
InvalidRatings == {Q(0), 35, Q(5)}

\* A session whose ratings wait for one another and may be invalid.
NextRatings ==
    \/ \E seeds \in SessionResponses :
          /\ heap = <<>>
          /\ FetchStudyData(seeds)
    \/ \E quality \in PawRatings \cup InvalidRatings :
          /\ calls = <<>>
          /\ RatingsGiven < MaxSessionReviews
          /\ HandleCardReview(quality, quality >= Q(3))
    \/ \E i \in DOMAIN calls : ReviewPersisted(i)
    \/ \E i \in DOMAIN calls : ReviewFailed(i)

SpecRatings == Init /\ [][NextRatings]_vars

\* C24: a rating that is not an integer of 1..4 is rejected: the step that
\* takes it leaves the entries (memory state and in-session review counter),
\* the queue, the pointer and the offline flag as they were, and sends
\* nothing.
C24_InvalidRatingRejected ==
    [][\A quality \in InvalidRatings :
          (calls = <<>> /\ HandleCardReview(quality, quality >= Q(3)))
          => UNCHANGED <<heap, studyQueue, currentCardIndex, isOfflineMode,
                         calls>>]_vars

-----------------------------------------------------------------------------
(* The failure of the history record *)

\* C25: when prisma.reviewHistory.create fails after prisma.card.update, the
\* answer is an error and the card keeps what the update wrote: the step
\* leaves the row as it is, with a review counter above the one that was read.
C25_UpdateNotRolledBack ==
    [][\A i \in DOMAIN handlers :
          (handlers[i].pc = "updated" /\ handlers'[i].status = ServerError)
          => /\ card' = card
             /\ card'.reviewCount > handlers[i].read[1].reviewCount
             /\ reviewHistory' = reviewHistory]_vars

\* The only request was answered 500 with no history row, and the card holds
\* the memory state computed from its review.
C25_Witness ==
    /\ Len(handlers) = 1
    /\ handlers[1].status = ServerError
    /\ reviewHistory = 0
    /\ card = ServerUpdate(handlers[1].read[1], handlers[1].quality,
                           handlers[1].wasCorrect, now)
    /\ card.stage # handlers[1].read[1].stage

-----------------------------------------------------------------------------
(* The retries of submitReview *)

\* C26: submitReview starts a retry only after a network error or a 5xx
\* answer, never after a 4xx; a call makes at most 2 retries, each after a
\* longer delay than the one before; and every call is settled: it resolves
\* or rejects.
C26_BoundedRetries ==
    /\ [][(request'.state = "backoff" /\ request.state # "backoff")
          => /\ request'.status = 0 \/ request'.status >= 500
             /\ request'.status \notin 400..499
             /\ request'.delay > request.delay]_vars
    /\ [](request.retries <= 2)
    /\ (request.state = "posted")
          ~> (request.state \in {"resolved", "rejected"})

\* A call was rejected after its second retry, the second having waited
\* longer than the first.
C26_Witness ==
    /\ request.state = "rejected"
    /\ request.retries = 2
    /\ request.status = ServerError
    /\ request.delay = BackoffDelay(1)
    /\ BackoffDelay(1) > BackoffDelay(0)

-----------------------------------------------------------------------------
(* Two requests for one card *)

\* The memory state of a row.
Memory(c) == <<c.stage, c.interval, c.easeFactor, c.consecutiveCorrect>>

\* The rows that the reviews a and b leave when one is applied after the
\* other to the row c.
SerialOutcomes(c, a, b) ==
    {ServerUpdate(ServerUpdate(c, a.quality, a.wasCorrect, now),
                  b.quality, b.wasCorrect, now),
     ServerUpdate(ServerUpdate(c, b.quality, b.wasCorrect, now),
                  a.quality, a.wasCorrect, now)}

\* C27: once two review requests for the card have both written it, so that
\* its reviewCount is two above the one first read, its stage, interval,
\* easeFactor and consecutiveCorrect are those of the two reviews applied in
\* one of the two orders.
C27_SerialOutcome ==
    (/\ Len(handlers) = 2
     /\ \A i \in DOMAIN handlers : handlers[i].read # <<>>
     /\ card.reviewCount = handlers[1].read[1].reviewCount + 2)
    => \E c \in SerialOutcomes(handlers[1].read[1], handlers[1], handlers[2]) :
          Memory(card) = Memory(c)

-----------------------------------------------------------------------------
(* A session whose reviews all reach the server *)

\* The session studies the stored card: the queue is seeded with it, each
\* rating is posted once, the server applies it and answers, and the next
\* rating is taken after the answer.
NextPersisted ==
    \/ /\ heap = <<>>
       /\ card.stage # "mastered"
       /\ FetchStudyData(<<card>>)
    \/ \E quality \in PawRatings :
          /\ calls = <<>>
          /\ request.state = "idle"
          /\ RatingsGiven < MaxSessionReviews
          /\ HandleCardReview(quality, quality >= Q(3))
    \/ /\ calls # <<>>
       /\ SubmitReview(calls[1].quality, calls[1].wasCorrect)
    \/ ReviewAnswered
    \/ /\ request.state = "resolved"
       /\ calls # <<>>
       /\ ReviewPersisted(1)
    \/ /\ calls = <<>>
       /\ ReviewSettled

InitPersisted ==
    /\ now = 0
    /\ card \in AllSeedCards
    /\ demoCard = FreshCard(0)
    /\ isDemoMode = FALSE
    /\ entry = QueueEntry(FreshCard(0))
    /\ last = Record("create", "server", card, 0, FALSE)
    /\ NoSession
    /\ NoRequest
    /\ NoServer
    /\ NoCards

SpecPersisted == InitPersisted /\ [][NextPersisted]_vars

\* C28: when the session has removed the card as mastered and each of its
\* reviews was persisted once, the stored card is in stage mastered.
C28_MasteredOnServer ==
    (/\ heap # <<>>
     /\ studyQueue = <<>>
     /\ calls = <<>>
     /\ reviewHistory = sessionStats.totalReviews)
    => card.stage = "mastered"

-----------------------------------------------------------------------------
(* Demo mode *)

\* C29: isDemoMode, once set, stays set through every step of submitReview,
\* answered or failed; and while it is set, a posted request that fails, with
\* whatever status, goes to the localStorage fallback: it is neither retried
\* nor rejected.
C29_DemoModeSticky ==
    /\ [][isDemoMode => isDemoMode']_vars
    /\ [][(/\ isDemoMode
           /\ request.state = "posted"
           /\ request'.state \notin {"posted", "resolved"})
          => request'.state = "fallback"]_vars

\* In demo mode, after a review served by the fallback and one answered by
\* the server, a request refused with 400 is handed to the fallback.
C29_Witness ==
    /\ isDemoMode
    /\ demoCard.reviewCount >= 1
    /\ card.reviewCount >= 1
    /\ request.state = "fallback"
    /\ request.status = ValidationFailed

-----------------------------------------------------------------------------
(* The end of a session *)

\* Math.round(cardsCorrect / cardsStudied * 100), or 0 for no card studied
Accuracy(cardsStudied, cardsCorrect) ==
    IF cardsStudied > 0
    THEN (200 * cardsCorrect + cardsStudied) \div (2 * cardsStudied)
    ELSE 0

\* handleSessionComplete, from the completion screen of an emptied queue:
\* ApiService.completeSession sends sessionStats.studied and
\* sessionStats.correct, and the server answers with the accuracy.
HandleSessionComplete ==
    /\ heap # <<>>
    /\ IsSessionComplete
    /\ ~completion.sent
    /\ completion' =
          [sent |-> TRUE, cardsStudied |-> sessionStats.studied,
           cardsCorrect |-> sessionStats.correct,
           accuracy |-> Accuracy(sessionStats.studied, sessionStats.correct)]
    /\ UNCHANGED <<heap, studyQueue, currentCardIndex, sessionStats,
                   isOfflineMode, calls, unsynced>>
    /\ UNCHANGED <<now, card, demoCard, isDemoMode, entry, last, request,
                   dueVars, serverVars>>

\* A session of ratings that wait for one another, up to its completion.
NextComplete ==
    \/ \E seeds \in SessionResponses :
          /\ heap = <<>>
          /\ FetchStudyData(seeds)
    \/ \E quality \in PawRatings :
          /\ calls = <<>>
          /\ RatingsGiven < MaxSessionReviews
          /\ HandleCardReview(quality, quality >= Q(3))
    \/ \E i \in DOMAIN calls : ReviewPersisted(i)
    \/ \E i \in DOMAIN calls : ReviewFailed(i)
    \/ HandleSessionComplete

SpecComplete == Init /\ [][NextComplete]_vars

\* C30: the aggregates sent for a completed session satisfy
\* 0 <= cardsCorrect <= cardsStudied, and the accuracy answered lies in 0..100.
C30_AccuracyInRange ==
    completion.sent
    => /\ 0 <= completion.cardsCorrect
       /\ completion.cardsCorrect <= completion.cardsStudied
       /\ completion.accuracy \in 0..100

====
